---- MODULE Spec2Model ----
(***************************************************************************)
(* Review annotation store, sidecar key derivation, PDF baking and the     *)
(* storage they share (backend/app/routers/reviews.py,                     *)
(* backend/app/utils/storage_derivation.py, backend/app/minio/service.py). *)
(*                                                                         *)
(* Strings that the code takes apart (object keys) are sequences of        *)
(* one-character strings, so that strip, rpartition, lower, endswith and   *)
(* rsplit are computed as Python computes them.                            *)
(***************************************************************************)
EXTENDS Integers, Sequences, FiniteSets, TLC

VARIABLES
    kKey, kOwner, kKey2, kOwner2, kOut,   \* key deriver: inputs and results
    storage,    \* object store: key -> object
    cache,      \* _OBJECT_SIZE_CACHE: key -> <<size, expires_at>>
    files,      \* ids of the FileAsset rows
    sessions,   \* ReviewSession rows, as <<file id, user id>>
    reqs,       \* the requests in flight, one per worker slot
    clock,      \* time.time() / datetime.utcnow()
    uuids,      \* number of uuid4() values drawn so far
    started,    \* number of requests received so far
    bAnns, bEnv, bOut                      \* baking engine: input, environment, result

vars == <<kKey, kOwner, kKey2, kOwner2, kOut,
          storage, cache, files, sessions, reqs, clock, uuids, started,
          bAnns, bEnv, bOut>>

keyVars == <<kKey, kOwner, kKey2, kOwner2, kOut>>
storeVars == <<storage, cache, files, sessions, reqs, clock, uuids, started>>
bakeVars == <<bAnns, bEnv, bOut>>

----------------------------------------------------------------------------
(* Bounds *)

\* longest stem (the part before the extension) of a generated source key
MaxStem == 2
\* longest annotation list handed to the baking engine
MaxAnns == 2
\* longest annotation list a client sends to save
MaxList == 2
\* number of requests the server receives
MaxStarts == 2
\* largest byte position named in a generated Range header
MaxByte == 4

----------------------------------------------------------------------------
(* Python string primitives on character sequences *)

WS == {" "}

RECURSIVE LStrip(_)
LStrip(s) == IF s # <<>> /\ Head(s) \in WS THEN LStrip(Tail(s)) ELSE s

RECURSIVE RStrip(_)
RStrip(s) ==
    IF s # <<>> /\ s[Len(s)] \in WS THEN RStrip(SubSeq(s, 1, Len(s) - 1)) ELSE s

\* str.strip()
Strip(s) == RStrip(LStrip(s))

\* str.lower(), on the letters the generated keys, headers and variants use
LowerChar(c) ==
    CASE c = "P" -> "p"
      [] c = "D" -> "d"
      [] c = "F" -> "f"
      [] c = "B" -> "b"
      [] c = "Y" -> "y"
      [] c = "T" -> "t"
      [] c = "E" -> "e"
      [] c = "S" -> "s"
      [] OTHER -> c

Lower(s) == [i \in 1..Len(s) |-> LowerChar(s[i])]

\* str.endswith(suf)
EndsWith(s, suf) ==
    /\ Len(s) >= Len(suf)
    /\ SubSeq(s, Len(s) - Len(suf) + 1, Len(s)) = suf

\* index of the last occurrence of character c in s, 0 when there is none
LastIndexOf(s, c) ==
    LET hits == {i \in 1..Len(s) : s[i] = c}
    IN  IF hits = {} THEN 0 ELSE CHOOSE i \in hits : \A j \in hits : j <= i

\* str.rpartition(c): <<head, sep, tail>>; <<"", "", s>> when c is not in s
RPartition(s, c) ==
    LET i == LastIndexOf(s, c)
    IN  IF i = 0 THEN <<<<>>, <<>>, s>>
        ELSE <<SubSeq(s, 1, i - 1), <<c>>, SubSeq(s, i + 1, Len(s))>>

\* str.rsplit(c, 1)[0]
RSplitHead(s, c) ==
    LET i == LastIndexOf(s, c)
    IN  IF i = 0 THEN s ELSE SubSeq(s, 1, i - 1)

Digit(d) == <<"0", "1", "2", "3", "4", "5", "6", "7", "8", "9">>[d + 1]

\* str(n) for a non-negative integer
RECURSIVE IntToStr(_)
IntToStr(n) == IF n < 10 THEN <<Digit(n)>> ELSE IntToStr(n \div 10) \o <<Digit(n % 10)>>

----------------------------------------------------------------------------
(* utils/storage_derivation.py *)

BAKED_POSTFIX == <<"_", "_", "b", "a", "k", "e", "d">>
ANNOTATIONS_POSTFIX == <<"_", "_", "a", "n", "n">>
USER_SUFFIX_PREFIX == <<"_", "u">>

DotPdf == <<".", "p", "d", "f">>
DotJson == <<".", "j", "s", "o", "n">>
DefaultBakedBase == <<"b", "a", "k", "e", "d">>
DefaultAnnBase == <<"a", "n", "n", "o", "t", "a", "t", "i", "o", "n", "s">>

\* An optional owner is a sequence: <<>> is None, <<n>> is user id n.
NoOwner == <<>>
Owner(n) == <<n>>

\* f"{USER_SUFFIX_PREFIX}{user_id}" if user_id is not None else ""
UserSuffix(user_id) ==
    IF user_id = NoOwner THEN <<>> ELSE USER_SUFFIX_PREFIX \o IntToStr(user_id[1])

\* the mutant: the owner suffix is left out of the baked name
derive_baked_key_NoOwnerSuffix(original_key, user_id) ==
    LET key == Strip(original_key)
        parts == RPartition(key, "/")
        base == IF EndsWith(Lower(parts[3]), DotPdf)
                THEN SubSeq(parts[3], 1, Len(parts[3]) - Len(DotPdf))
                ELSE parts[3]
        baked_name == base \o BAKED_POSTFIX \o DotPdf
    IN  IF key = <<>> THEN DefaultBakedBase \o BAKED_POSTFIX \o DotPdf
        ELSE IF parts[1] # <<>> THEN parts[1] \o <<"/">> \o baked_name ELSE baked_name

derive_baked_key(original_key, user_id) ==
    LET key == Strip(original_key)
        parts == RPartition(key, "/")
        dir_part == parts[1]
        filename == parts[3]
        base == IF EndsWith(Lower(filename), DotPdf)
                THEN SubSeq(filename, 1, Len(filename) - Len(DotPdf))
                ELSE filename
        suffix == UserSuffix(user_id)
        baked_name == base \o BAKED_POSTFIX \o suffix \o DotPdf
    IN  IF key = <<>> THEN DefaultBakedBase \o BAKED_POSTFIX \o suffix \o DotPdf
        ELSE IF dir_part # <<>> THEN dir_part \o <<"/">> \o baked_name ELSE baked_name

\* the mutant: the directory part is dropped from the derived key
derive_annotations_key_NoDir(original_key, user_id) ==
    LET key == Strip(original_key)
        parts == RPartition(key, "/")
        base == IF LastIndexOf(parts[3], ".") # 0 THEN RSplitHead(parts[3], ".") ELSE parts[3]
    IN  IF key = <<>>
        THEN DefaultAnnBase \o ANNOTATIONS_POSTFIX \o UserSuffix(user_id) \o DotJson
        ELSE base \o ANNOTATIONS_POSTFIX \o UserSuffix(user_id) \o DotJson

derive_annotations_key(original_key, user_id) ==
    LET key == Strip(original_key)
        parts == RPartition(key, "/")
        dir_part == parts[1]
        filename == parts[3]
        base == IF LastIndexOf(filename, ".") # 0 THEN RSplitHead(filename, ".") ELSE filename
        suffix == UserSuffix(user_id)
        ann_name == base \o ANNOTATIONS_POSTFIX \o suffix \o DotJson
    IN  IF key = <<>> THEN DefaultAnnBase \o ANNOTATIONS_POSTFIX \o suffix \o DotJson
        ELSE IF dir_part # <<>> THEN dir_part \o <<"/">> \o ann_name ELSE ann_name

\* dir_part and base as derive_baked_key computes them (lines 29-32)
BakedParts(original_key) ==
    LET parts == RPartition(Strip(original_key), "/")
    IN  <<parts[1],
          IF EndsWith(Lower(parts[3]), DotPdf)
          THEN SubSeq(parts[3], 1, Len(parts[3]) - Len(DotPdf))
          ELSE parts[3]>>

\* dir_part and base as derive_annotations_key computes them (lines 49-52)
AnnParts(original_key) ==
    LET parts == RPartition(Strip(original_key), "/")
    IN  <<parts[1],
          IF LastIndexOf(parts[3], ".") # 0 THEN RSplitHead(parts[3], ".") ELSE parts[3]>>

----------------------------------------------------------------------------
(* JSON values of an annotation payload, and Python's float() and `or` on them *)

\* Every JSON number n stands for the real n / Den; lengths handed to a draw
\* operation are in units of 1 / (4 * Den) point, so that 0.25, 0.75 and
\* 72/96 stay integers.
Den == 4
Sub == 4 * Den

Num(n) == [t |-> "num", n |-> n]
Null == [t |-> "null", n |-> 0]
\* a string that float() cannot parse
BadStr == [t |-> "str", n |-> 0]

\* bool(v)
Truthy(v) == v.t = "str" \/ (v.t = "num" /\ v.n # 0)
\* float(v or default) raises ValueError
FloatRaises(v) == v.t = "str"
\* float(v or default), times Den; default is given times Den
FloatOr(v, default) == IF Truthy(v) THEN v.n ELSE default
\* isinstance(v, (int, float))
IsNumber(v) == v.t = "num"

NotList == [isList |-> FALSE, items |-> <<>>]
List(items) == [isList |-> TRUE, items |-> items]
NotDict == [isDict |-> FALSE, x |-> Null, y |-> Null, width |-> Null, height |-> Null]
RectDict(x, y, w, h) == [isDict |-> TRUE, x |-> x, y |-> y, width |-> w, height |-> h]

Max(a, b) == IF a >= b THEN a ELSE b
Min(a, b) == IF a <= b THEN a ELSE b

\* _clamp01, times Den
_clamp01(v) == Max(0, Min(Den, v))

\* _parse_color_to_rgb01: "#RRGGBB" and rgb()/rgba() strings parse, anything
\* else (empty, malformed) gives None, written "".
_parse_color_to_rgb01(color) == IF color \in {"#ff0000", "rgb(0,0,255)"} THEN color ELSE ""

\* `a or b` on a parsed color
ColorOr(rgb, default) == IF rgb # "" THEN rgb ELSE default

----------------------------------------------------------------------------
(* routers/reviews.py: _build_baked_pdf_bytes *)

\* the document under the bake: page count and page rectangle (points)
NumPages == 2
PageW == 100
PageH == 200

\* int(v) of the number n / Den: truncation toward zero
IntOf(n) == IF n >= 0 THEN n \div Den ELSE -((-n) \div Den)

\* int(ann.get("page") or 1): <<ok, page_num>>; ok is FALSE when int() raises
PageNum(page) ==
    IF FloatRaises(page) THEN <<FALSE, 0>>
    ELSE <<TRUE, IF Truthy(page) THEN IntOf(page.n) ELSE 1>>

\* lines 231-250: whether the annotation is put into by_page, and where
Grouped(ann, page_count) ==
    LET pn == PageNum(ann.page)
    IN  /\ pn[1]
        /\ ~(pn[2] <= 0 \/ pn[2] > page_count)
        /\ ann.text.json = "dict"
        /\ ann.text.type \in {"ink", "highlight", "freetext"}

\* the points of a pointsNorm list: range(0, len - 1, 2)
PointIndexes(n) == {i \in 1..(n - 1) : i % 2 = 1}

PointsRaise(items) ==
    \E i \in PointIndexes(Len(items)) : FloatRaises(items[i]) \/ FloatRaises(items[i + 1])

RECURSIVE PointsFrom(_, _)
PointsFrom(items, i) ==
    IF i > Len(items) - 1 THEN <<>>
    ELSE <<<<4 * FloatOr(items[i], 0) * PageW, 4 * FloatOr(items[i + 1], 0) * PageH>>>>
         \o PointsFrom(items, i + 2)

\* max(least, float(width_norm) * page_w), else the pixel width at 72/96
WidthRaises(data) == ~IsNumber(data.widthNorm) /\ FloatRaises(data.width)
StrokeWidth(data, least, default_px) ==
    IF IsNumber(data.widthNorm)
    THEN Max(least, 4 * data.widthNorm.n * PageW)
    ELSE Max(least, 3 * FloatOr(data.width, default_px * Den))

\* One call of a drawing method of the page. src is the index, in the
\* annotation list, of the annotation the call is made for.
Draw(op, pts, color, width, overlay, text, src) ==
    [op |-> op, pts |-> pts, color |-> color, width |-> width, overlay |-> overlay,
     text |-> text, src |-> src]

Skipped == [raised |-> FALSE, draws |-> <<>>]
Raise == [raised |-> TRUE, draws |-> <<>>]
Drawn(ds) == [raised |-> FALSE, draws |-> ds]

\* lines 261-286 (draw_polyline is taken to succeed, as it does in the
\* PyMuPDF versions that have the snake_case API the code calls first)
DrawInk(data, env, src) ==
    LET pts_norm == IF data.v = 2 THEN data.pointsNorm ELSE NotList
        rgb == ColorOr(_parse_color_to_rgb01(data.color), "gray-900")
        pts == PointsFrom(pts_norm.items, 1)
        width == StrokeWidth(data, 4, 2)
    IN  IF ~(pts_norm.isList /\ Len(pts_norm.items) >= 4) THEN Skipped
        ELSE IF PointsRaise(pts_norm.items) THEN Raise
        ELSE IF WidthRaises(data) THEN Raise
        ELSE Drawn(<<Draw("polyline", pts, rgb, width, TRUE, "", src)>>)

RectRaises(rn) ==
    FloatRaises(rn.x) \/ FloatRaises(rn.y) \/ FloatRaises(rn.width) \/ FloatRaises(rn.height)

\* fitz.Rect(x, y, x + max(0.0, w), y + max(0.0, h)) as its two corners
RectBox(rn) ==
    LET x == 4 * FloatOr(rn.x, 0) * PageW
        y == 4 * FloatOr(rn.y, 0) * PageH
        w == 4 * FloatOr(rn.width, 0) * PageW
        h == 4 * FloatOr(rn.height, 0) * PageH
    IN  <<<<x, y>>, <<x + Max(0, w), y + Max(0, h)>>>>

\* lines 318-334: the rectangles drawn until one raises; the exception is swallowed
RECURSIVE DrawRects(_, _, _, _, _)
DrawRects(items, rgb, opacity, env, src) ==
    IF items = <<>> THEN <<>>
    ELSE IF ~Head(items).isDict THEN DrawRects(Tail(items), rgb, opacity, env, src)
    ELSE IF RectRaises(Head(items)) THEN <<>>
    ELSE <<Draw("rect", RectBox(Head(items)), rgb, opacity, ~env.underlay, "", src)>>
         \o DrawRects(Tail(items), rgb, opacity, env, src)

\* lines 289-351
DrawHighlight(data, env, src) ==
    LET rgb == ColorOr(_parse_color_to_rgb01(data.color), "yellow")
        opacity == _clamp01(FloatOr(data.opacity, 3))
        pts == PointsFrom(data.pointsNorm.items, 1)
        width == StrokeWidth(data, 8, 12)
    IN  IF FloatRaises(data.opacity) THEN Raise
        ELSE IF data.v = 2 /\ data.kind = "stroke" /\ data.pointsNorm.isList
        THEN IF Len(data.pointsNorm.items) < 4 THEN Skipped
             ELSE IF PointsRaise(data.pointsNorm.items) THEN Raise
             ELSE IF WidthRaises(data) THEN Raise
             ELSE Drawn(<<Draw("polyline", pts, rgb, width, ~env.underlay, "", src)>>)
        ELSE IF data.rectsNorm.isList
        THEN Drawn(DrawRects(data.rectsNorm.items, rgb, opacity, env, src))
        ELSE IF data.rectNorm.isDict
        THEN IF RectRaises(data.rectNorm) THEN Raise
             ELSE Drawn(<<Draw("rect", RectBox(data.rectNorm), rgb, opacity, ~env.underlay, "", src)>>)
        ELSE Skipped

\* str(data.get("text") or ""), else the joined runs
TextOf(data) == IF data.text # "" THEN data.text ELSE data.runs

\* lines 354-450
DrawFreetext(data, env, src) ==
    LET rgb == ColorOr(_parse_color_to_rgb01(data.color), "gray-900")
        x == 4 * FloatOr(data.xNorm, 0) * PageW
        y == 4 * FloatOr(data.yNorm, 0) * PageH
        w == 4 * FloatOr(data.widthNorm, 1) * PageW
        \* float(heightNorm or 0.12) * page_h; 0.12 * page_h is rounded down
        h == IF Truthy(data.heightNorm) THEN 4 * data.heightNorm.n * PageH
             ELSE (12 * Sub * PageH) \div 100
        fs == IF Truthy(data.fontSizeNorm) THEN 4 * data.fontSizeNorm.n * PageH ELSE 16 * Sub
        size == Max(6 * Sub, fs)
        px == IF data.v = 2 THEN x ELSE 4 * FloatOr(data.x, 0)
        py == IF data.v = 2 THEN y ELSE 4 * FloatOr(data.y, 0)
        pfs == IF data.v = 2 THEN fs
               ELSE IF Truthy(data.fontSize) THEN 4 * data.fontSize.n ELSE 16 * Sub
        psize == Max(6 * Sub, pfs)
    IN  IF data.v = 2 /\ data.kind = "textbox"
        THEN IF \/ FloatRaises(data.xNorm) \/ FloatRaises(data.yNorm)
                \/ FloatRaises(data.widthNorm) \/ FloatRaises(data.heightNorm)
                \/ FloatRaises(data.fontSizeNorm)
             THEN Raise
             ELSE Drawn(<<Draw("textbox",
                               <<<<x, y>>, <<x + Max(40 * Sub, w), y + Max(20 * Sub, h)>>>>,
                               rgb, size, TRUE, TextOf(data), src)>>)
        ELSE IF data.v = 2
        THEN IF FloatRaises(data.xNorm) \/ FloatRaises(data.yNorm) \/ FloatRaises(data.fontSizeNorm)
             THEN Raise
             ELSE Drawn(<<Draw("text", <<<<px, py + psize>>>>, rgb, psize, TRUE, TextOf(data), src)>>)
        ELSE IF FloatRaises(data.x) \/ FloatRaises(data.y) \/ FloatRaises(data.fontSize)
             THEN Raise
             ELSE Drawn(<<Draw("text", <<<<px, py + psize>>>>, rgb, psize, TRUE, TextOf(data), src)>>)

\* lines 257-451: the draw operations of one grouped annotation
DrawAnn(ann, env, src) ==
    CASE ann.text.type = "ink" -> DrawInk(ann.text.data, env, src)
      [] ann.text.type = "highlight" -> DrawHighlight(ann.text.data, env, src)
      [] ann.text.type = "freetext" -> DrawFreetext(ann.text.data, env, src)
      [] OTHER -> Skipped

\* the mutant: the annotations of a page are drawn last to first
RECURSIVE PageDraws_Reversed(_, _, _, _)
PageDraws_Reversed(anns, env, p, i) ==
    IF i > Len(anns) THEN Skipped
    ELSE IF ~(Grouped(anns[i], NumPages) /\ PageNum(anns[i].page)[2] = p)
    THEN PageDraws_Reversed(anns, env, p, i + 1)
    ELSE LET here == DrawAnn(anns[i], env, i)
             rest == PageDraws_Reversed(anns, env, p, i + 1)
         IN  IF here.raised \/ rest.raised THEN Raise
             ELSE Drawn(rest.draws \o here.draws)

\* lines 252-257: the draws on page p, annotations i..Len(anns) in stored order
RECURSIVE PageDraws(_, _, _, _)
PageDraws(anns, env, p, i) ==
    IF i > Len(anns) THEN Skipped
    ELSE IF ~(Grouped(anns[i], NumPages) /\ PageNum(anns[i].page)[2] = p)
    THEN PageDraws(anns, env, p, i + 1)
    ELSE LET here == DrawAnn(anns[i], env, i)
             rest == PageDraws(anns, env, p, i + 1)
         IN  IF here.raised \/ rest.raised THEN Raise
             ELSE Drawn(here.draws \o rest.draws)

\* the mutant: only the pages that were drawn on are saved
_build_baked_pdf_bytes_DrawnPagesOnly(annotations, env) ==
    LET per == [p \in 1..NumPages |-> PageDraws(annotations, env, p, 1)]
        all == [p \in 1..NumPages |-> per[p].draws]
        drawn(ds) == ds # <<>>
    IN  IF ~env.fitz THEN [status |-> "no_backend", pages |-> <<>>]
        ELSE IF ~env.valid THEN [status |-> "bad_source", pages |-> <<>>]
        ELSE IF \E p \in 1..NumPages : per[p].raised
        THEN [status |-> "raised", pages |-> <<>>]
        ELSE [status |-> "ok", pages |-> SelectSeq(all, drawn)]

\* _build_baked_pdf_bytes: the pages of the saved document, or the exception
_build_baked_pdf_bytes(annotations, env) ==
    LET per == [p \in 1..NumPages |-> PageDraws(annotations, env, p, 1)]
    IN  IF ~env.fitz THEN [status |-> "no_backend", pages |-> <<>>]
        ELSE IF ~env.valid THEN [status |-> "bad_source", pages |-> <<>>]
        ELSE IF \E p \in 1..NumPages : per[p].raised
        THEN [status |-> "raised", pages |-> <<>>]
        ELSE [status |-> "ok", pages |-> [p \in 1..NumPages |-> per[p].draws]]

----------------------------------------------------------------------------
(* Inputs of the key deriver *)

StemChars == {"a", "/", " ", "."}
KeyExts == {<<>>, DotPdf, <<".", "P", "D", "F">>, <<".", "t", "x", "t">>}

RECURSIVE SeqsUpTo(_, _)
SeqsUpTo(S, n) ==
    IF n = 0 THEN {<<>>}
    ELSE LET shorter == SeqsUpTo(S, n - 1)
         IN  shorter \cup {Append(q, c) : q \in shorter, c \in S}

SourceKeys == {stem \o ext : stem \in SeqsUpTo(StemChars, MaxStem), ext \in KeyExts}

OwnerIds == {1, 2, 12}
Owners == {NoOwner} \cup {Owner(n) : n \in OwnerIds}

KeyIdle ==
    /\ kKey = <<>> /\ kOwner = NoOwner /\ kKey2 = <<>> /\ kOwner2 = NoOwner
    /\ kOut = [done |-> FALSE, baked1 |-> <<>>, baked2 |-> <<>>, ann1 |-> <<>>, ann2 |-> <<>>]

StoreIdle ==
    /\ storage = <<>> /\ cache = <<>> /\ files = {} /\ sessions = {} /\ reqs = <<>>
    /\ clock = 0 /\ uuids = 0 /\ started = 0

BakeIdle ==
    /\ bAnns = <<>>
    /\ bEnv = [fitz |-> TRUE, valid |-> TRUE, underlay |-> TRUE]
    /\ bOut = [done |-> FALSE, status |-> "", pages |-> <<>>]

KeyInit ==
    /\ kKey \in SourceKeys
    /\ kOwner \in Owners
    /\ kKey2 = kKey
    /\ kOwner2 = kOwner
    /\ kOut = [done |-> FALSE, baked1 |-> <<>>, baked2 |-> <<>>, ann1 |-> <<>>, ann2 |-> <<>>]
    /\ StoreIdle
    /\ BakeIdle

\* Both derivations applied to (kKey, kOwner) and to a second input that
\* differs from the first in the key or in the owner, not in both.
Derive(k2, o2) ==
    /\ ~kOut.done
    /\ k2 = kKey \/ o2 = kOwner
    /\ kKey2' = k2
    /\ kOwner2' = o2
    /\ kOut' = [done |-> TRUE,
                baked1 |-> derive_baked_key(kKey, kOwner),
                baked2 |-> derive_baked_key(k2, o2),
                ann1 |-> derive_annotations_key(kKey, kOwner),
                ann2 |-> derive_annotations_key(k2, o2)]
    /\ UNCHANGED <<kKey, kOwner, storeVars, bakeVars>>

KeyNext == \E k2 \in SourceKeys, o2 \in Owners : Derive(k2, o2)

KeySpec == KeyInit /\ [][KeyNext]_vars

----------------------------------------------------------------------------
(* Inputs of the baking engine: stored annotation records and their payloads *)

\* the `data` object of a payload with every key missing
D0 ==
    [v |-> 0, kind |-> "", color |-> "", text |-> "", runs |-> "",
     pointsNorm |-> NotList, rectsNorm |-> NotList, rectNorm |-> NotDict,
     widthNorm |-> Null, width |-> Null, opacity |-> Null,
     xNorm |-> Null, yNorm |-> Null, heightNorm |-> Null, fontSizeNorm |-> Null,
     x |-> Null, y |-> Null, fontSize |-> Null]

\* the annotation's `text`: a JSON document {"type": ..., "data": {...}}
Payload(type, data) == [json |-> "dict", type |-> type, data |-> data]
BadJson == [json |-> "bad", type |-> "", data |-> D0]
NonDictJson == [json |-> "nondict", type |-> "", data |-> D0]
EmptyText == [json |-> "dict", type |-> "", data |-> D0]

F(n) == Num(n)
Pts(a, b, c, d) == List(<<F(a), F(b), F(c), F(d)>>)

InkGood == Payload("ink", [D0 EXCEPT !.v = 2, !.pointsNorm = Pts(1, 1, 2, 3), !.widthNorm = F(1)])
InkPx == Payload("ink", [D0 EXCEPT !.v = 2, !.pointsNorm = Pts(0, 4, 4, 0), !.width = F(8),
                                     !.color = "#ff0000"])
InkOut == Payload("ink", [D0 EXCEPT !.v = 2, !.pointsNorm = Pts(6, 2, 8, 2)])
InkNeg == Payload("ink", [D0 EXCEPT !.v = 2, !.pointsNorm = Pts(1, -2, 2, 2)])
InkBadCoord == Payload("ink", [D0 EXCEPT !.v = 2, !.pointsNorm = List(<<BadStr, F(1), F(2), F(2)>>)])
InkShort == Payload("ink", [D0 EXCEPT !.v = 2, !.pointsNorm = List(<<F(1), F(1)>>)])
InkLegacy == Payload("ink", [D0 EXCEPT !.pointsNorm = Pts(1, 1, 2, 2)])
InkBadWidth == Payload("ink", [D0 EXCEPT !.v = 2, !.pointsNorm = Pts(1, 1, 2, 2), !.width = BadStr])

HlStroke == Payload("highlight", [D0 EXCEPT !.v = 2, !.kind = "stroke", !.pointsNorm = Pts(0, 2, 4, 2),
                                            !.opacity = F(2)])
HlBadOpacity == Payload("highlight", [D0 EXCEPT !.v = 2, !.kind = "stroke",
                                                !.pointsNorm = Pts(0, 2, 4, 2), !.opacity = BadStr])
HlRect == Payload("highlight", [D0 EXCEPT !.v = 2, !.rectNorm = RectDict(F(1), F(1), F(2), F(1))])
HlRectOut == Payload("highlight", [D0 EXCEPT !.v = 2, !.rectNorm = RectDict(F(3), F(1), F(4), F(1))])
HlRectBad == Payload("highlight", [D0 EXCEPT !.v = 2, !.rectNorm = RectDict(BadStr, F(1), F(2), F(1))])
HlRects == Payload("highlight",
                   [D0 EXCEPT !.v = 2,
                              !.rectsNorm = [isList |-> TRUE,
                                             items |-> <<RectDict(F(0), F(0), F(1), F(1)), NotDict,
                                                         RectDict(F(1), BadStr, F(1), F(1)),
                                                         RectDict(F(2), F(2), F(1), F(1))>>]])
HlNone == Payload("highlight", [D0 EXCEPT !.v = 2])

FtBox == Payload("freetext", [D0 EXCEPT !.v = 2, !.kind = "textbox", !.xNorm = F(1), !.yNorm = F(1),
                                        !.widthNorm = F(2), !.heightNorm = F(1), !.text = "note"])
FtBoxBad == Payload("freetext", [D0 EXCEPT !.v = 2, !.kind = "textbox", !.xNorm = BadStr,
                                           !.text = "note"])
FtPlain == Payload("freetext", [D0 EXCEPT !.v = 2, !.xNorm = F(2), !.yNorm = F(2), !.runs = "run"])
FtLegacy == Payload("freetext", [D0 EXCEPT !.x = F(40), !.y = F(80), !.fontSize = F(48),
                                           !.text = "note"])
Stamp == Payload("stamp", D0)

BakePayloads ==
    {InkGood, InkPx, InkOut, InkNeg, InkBadCoord, InkShort, InkLegacy, InkBadWidth,
     HlStroke, HlBadOpacity, HlRect, HlRectOut, HlRectBad, HlRects, HlNone,
     FtBox, FtBoxBad, FtPlain, FtLegacy, Stamp, BadJson, NonDictJson, EmptyText}

\* the values of `page`: 0, 1, N, N + 1, -1, 1.5, null and a string
BakePages ==
    {F(0), F(Den), F(Den * NumPages), F(Den * (NumPages + 1)), F(-Den), F(Den + 2), Null, BadStr}

\* one record of the stored sidecar list (the fields the engine reads)
StoredAnn(page, text) == [page |-> page, text |-> text]

BakeAnns ==
    {StoredAnn(F(Den), t) : t \in BakePayloads}
        \cup {StoredAnn(pg, InkGood) : pg \in BakePages}
        \cup {StoredAnn(F(Den * NumPages), HlRect)}

BakeEnvs ==
    {[fitz |-> TRUE, valid |-> TRUE, underlay |-> TRUE],
     [fitz |-> TRUE, valid |-> TRUE, underlay |-> FALSE],
     [fitz |-> FALSE, valid |-> TRUE, underlay |-> TRUE],
     [fitz |-> TRUE, valid |-> FALSE, underlay |-> TRUE]}

BakeInit ==
    /\ bAnns \in SeqsUpTo(BakeAnns, MaxAnns)
    /\ bEnv \in BakeEnvs
    /\ bOut = [done |-> FALSE, status |-> "", pages |-> <<>>]
    /\ KeyIdle
    /\ StoreIdle

\* one call of _build_baked_pdf_bytes
Build ==
    /\ ~bOut.done
    /\ bOut' = [done |-> TRUE] @@ _build_baked_pdf_bytes(bAnns, bEnv)
    /\ UNCHANGED <<bAnns, bEnv, keyVars, storeVars>>

BakeNext == Build

BakeSpec == BakeInit /\ [][BakeNext]_vars

----------------------------------------------------------------------------
(* Claims about the baking engine *)

BakeOk == bOut.done /\ bOut.status = "ok"

\* the draw operations issued for the annotation at index i
DrawsFor(i) ==
    {<<p, k>> \in (1..NumPages) \X (1..(2 * MaxAnns + 4)) :
        k <= Len(bOut.pages[p]) /\ bOut.pages[p][k].src = i}

\* C8 as stated: an annotation that cannot be transformed is skipped and the
\* bake completes; the bake fails only when the source cannot be opened or
\* no rendering backend is available.
C8_BakeFailsOnlyOnSourceOrBackend ==
    (bOut.done /\ bEnv.fitz /\ bEnv.valid) => bOut.status = "ok"

\* C9 as stated: an annotation whose page index is not in 1..N (0, negative,
\* above N) produces no draw operation on any page.
C9_OutOfBoundsPageNotDrawn ==
    BakeOk =>
        \A i \in 1..Len(bAnns) :
            (/\ bAnns[i].page.t = "num"
             /\ bAnns[i].page.n % Den = 0
             /\ bAnns[i].page.n \div Den \notin 1..NumPages)
                => DrawsFor(i) = {}

\* whether a number of the normalized geometry lies outside [0, 1]
OutOfUnit(v) == v.t = "num" /\ (v.n < 0 \/ v.n > Den)

HasOutOfRangeGeometry(data) ==
    \/ \E k \in 1..Len(data.pointsNorm.items) : OutOfUnit(data.pointsNorm.items[k])
    \/ OutOfUnit(data.rectNorm.x) \/ OutOfUnit(data.rectNorm.y)
    \/ OutOfUnit(data.rectNorm.width) \/ OutOfUnit(data.rectNorm.height)
    \/ OutOfUnit(data.xNorm) \/ OutOfUnit(data.yNorm)

\* C10 as stated: an annotation whose normalized geometry has a coordinate
\* outside [0,1] is dropped, no draw operation is issued for it.
C10_OutOfRangeGeometryDropped ==
    BakeOk =>
        \A i \in 1..Len(bAnns) :
            HasOutOfRangeGeometry(bAnns[i].text.data) => DrawsFor(i) = {}

\* C11: on every page of a completed bake the draw operations appear in the
\* stored order of the annotations they are issued for: a draw for an earlier
\* annotation of the set is never issued after a draw for a later one.
C11_DrawsFollowStoredOrder ==
    BakeOk =>
        \A p \in DOMAIN bOut.pages :
            \A k, l \in DOMAIN bOut.pages[p] :
                k < l => bOut.pages[p][k].src <= bOut.pages[p][l].src

\* two different annotations of one page were both drawn, the first one first
C11_Witness ==
    /\ BakeOk /\ Len(bAnns) = 2
    /\ bAnns[1].text # bAnns[2].text
    /\ \E p \in DOMAIN bOut.pages :
           /\ Len(bOut.pages[p]) = 2
           /\ bOut.pages[p][1].src = 1 /\ bOut.pages[p][2].src = 2
           /\ bOut.pages[p][1].op # bOut.pages[p][2].op

\* C13: a completed bake has exactly the N pages of the source, in place: the
\* draws found on page p are those of annotations grouped to page p.
C13_PageCountKept ==
    BakeOk =>
        /\ Len(bOut.pages) = NumPages
        /\ \A p \in DOMAIN bOut.pages :
               \A k \in DOMAIN bOut.pages[p] :
                   PageNum(bAnns[bOut.pages[p][k].src].page)[2] = p

\* a completed bake drew on the last page and left the first page untouched
C13_Witness ==
    /\ BakeOk /\ bAnns # <<>>
    /\ Len(bOut.pages) = NumPages
    /\ bOut.pages[1] = <<>>
    /\ bOut.pages[NumPages] # <<>>

----------------------------------------------------------------------------
(* Claims about the key deriver *)

\* C2: for every source key and every two distinct owner identifiers the two
\* baked keys differ and the two annotation keys differ, and a key derived
\* with an owner differs from the key derived with no owner.
C2_DistinctOwnersDistinctKeys ==
    (kOut.done /\ kKey2 = kKey /\ kOwner2 # kOwner)
        => (kOut.baked1 # kOut.baked2 /\ kOut.ann1 # kOut.ann2)

C2_Witness ==
    /\ kOut.done /\ kKey2 = kKey
    /\ kOwner = Owner(1) /\ kOwner2 = Owner(12)
    /\ kKey = <<"/", "a", ".", "p", "d", "f">>

----------------------------------------------------------------------------
(* The object store (minio/service.py) and its objects *)

Absent == [kind |-> "absent", anns |-> <<>>, pages |-> <<>>]
\* the JSON document {"annotations": [...]} written by upload_json
JsonDoc(list) == [kind |-> "json", anns |-> list, pages |-> <<>>]
\* a PDF, as the draw operations on each of its pages
PdfDoc(pages) == [kind |-> "pdf", anns |-> <<>>, pages |-> pages]
Original == PdfDoc([p \in 1..NumPages |-> <<>>])

\* minio_client.get_object / stat_object on a key
Get(store, key) == IF key \in DOMAIN store THEN store[key] ELSE Absent

\* minio_client.put_object: the object appears whole under the key
Put(store, key, obj) == [k \in DOMAIN store \cup {key} |-> IF k = key THEN obj ELSE store[k]]

\* the mutant: only the first record of the list reaches the store
upload_json_Truncated(store, object_key, list) ==
    Put(store, object_key, JsonDoc(SubSeq(list, 1, Min(1, Len(list)))))

\* upload_json: one put_object of the serialized document
upload_json(store, object_key, list) == Put(store, object_key, JsonDoc(list))

\* the mutant: a sidecar that does not exist reads as a one-record document
get_json_MissingHasRecord(store, object_key) ==
    LET obj == Get(store, object_key)
    IN  IF obj.kind = "json" THEN obj.anns
        ELSE <<[id |-> "a0", page |-> F(Den), x |-> F(0), y |-> F(0), text |-> InkGood,
                author_id |-> 1, created_at |-> 0, updated_at |-> 0]>>

\* get_json: {} when the object does not exist, else the parsed document;
\* then data.get("annotations", [])
get_json(store, object_key) ==
    LET obj == Get(store, object_key)
    IN  IF obj.kind = "json" THEN obj.anns ELSE <<>>

\* upload_stream: one put_object of the stream under object_key
upload_stream(store, object_key, obj) == Put(store, object_key, obj)

\* the mutant: a failed upload leaves the part already sent under the key
upload_failed_Partial(store, object_key) ==
    Put(store, object_key, [kind |-> "partial", anns |-> <<>>, pages |-> <<>>])

\* put_object raising S3Error: the store keeps what it had
upload_failed(store, object_key) == store

\* len(baked_bytes): grows with the content added to the pages
RECURSIVE SumLen(_, _)
SumLen(pages, p) == IF p > Len(pages) THEN 0 ELSE Len(pages[p]) + SumLen(pages, p + 1)
Size(obj) == 1 + Len(obj.pages) + SumLen(obj.pages, 1)

----------------------------------------------------------------------------
(* The rows and requests of the review endpoints (routers/reviews.py) *)

Slots == {1, 2}
Reviewers == {1, 2}
Docs == {1}

\* FileAsset.file_key
FileKey(d) == <<"p", "/", "a", ".", "p", "d", "f">>
\* User.name
UserName(u) == <<"user", u>>

_OBJECT_SIZE_CACHE_TTL_SECONDS == 300

\* The derived keys of every (file, reviewer), computed once.
AnnKeys == [d \in Docs, u \in Reviewers |-> derive_annotations_key(FileKey(d), Owner(u))]
BakedKeys == [d \in Docs, u \in Reviewers |-> derive_baked_key(FileKey(d), Owner(u))]

\* the mutant: the sidecar key is derived without the reviewer
AnnKeyOf_Shared(d, u) == derive_annotations_key(FileKey(d), NoOwner)

\* line 1411 / 1506 / 1598: derive_annotations_key(file_asset.file_key, user_id=user.id)
AnnKeyOf(d, u) == AnnKeys[d, u]

\* the mutant: the bake is stored under the key of the original
BakedKeyOf_Original(d, u) == FileKey(d)

\* line 1529: derive_baked_key(file_asset.file_key, user_id=user.id)
BakedKeyOf(d, u) == BakedKeys[d, u]

\* the mutant: a bake starts from the artifact baked before
BakeSourceKey_Baked(d, u) == BakedKeyOf(d, u)

\* line 1515: _read_object_bytes(file_asset.file_key), whoever the reviewer u is
BakeSourceKey(d, u) == FileKey(d)

\* lines 224 and 455: the opened source saved after the draws; every page keeps
\* what it held and gains the draws issued on it
SavedPages(src_pages, draws) == [p \in DOMAIN draws |-> src_pages[p] \o draws[p]]

\* PDFAnnotation objects a client sends; created_at 0 is the empty string
ClientAnns ==
    {[id |-> "a1", page |-> F(Den), x |-> F(1), y |-> F(2), text |-> InkGood, created_at |-> 0],
     [id |-> "a2", page |-> F(Den * NumPages), x |-> F(3), y |-> F(0), text |-> HlRect,
      created_at |-> 1]}

\* the lists a client sends: every annotation of a list has its own id
SaveInputs ==
    {input \in SeqsUpTo(ClientAnns, MaxList) :
         \A i, j \in 1..Len(input) : input[i].id = input[j].id => i = j}

\* PDFAnnotationCreate objects a client sends
AppendInputs == {[page |-> F(Den), x |-> F(2), y |-> F(2), text |-> FtPlain]}

\* the mutant: the new records are merged after the ones already stored
SaveList_Merged(old, input, u, now) ==
    old \o [i \in 1..Len(input) |->
               [id |-> input[i].id, page |-> input[i].page, x |-> input[i].x, y |-> input[i].y,
                text |-> input[i].text, author_id |-> u,
                created_at |-> IF input[i].created_at # 0 THEN input[i].created_at ELSE now,
                updated_at |-> now]]

\* lines 1417-1429: annotations_list; `old` is what the sidecar holds (unused)
SaveList(old, input, u, now) ==
    [i \in 1..Len(input) |->
        [id |-> input[i].id, page |-> input[i].page, x |-> input[i].x, y |-> input[i].y,
         text |-> input[i].text, author_id |-> u,
         created_at |-> IF input[i].created_at # 0 THEN input[i].created_at ELSE now,
         updated_at |-> now]]

\* lines 1343-1366: the PDFAnnotation objects built from the stored records
LoadView(list) ==
    [i \in 1..Len(list) |->
        [id |-> list[i].id, page |-> list[i].page, x |-> list[i].x, y |-> list[i].y,
         text |-> list[i].text, author_id |-> list[i].author_id,
         author_name |-> UserName(list[i].author_id),
         created_at |-> list[i].created_at, updated_at |-> list[i].updated_at]]

\* str(uuid.uuid4()): the n-th value drawn, a string like the ids clients send
Uuid4(n) == <<"uuid1", "uuid2", "uuid3", "uuid4">>[n]

\* the mutant: every new record gets the same id
NewAnnotation_SameId(annotation, u, now, n) ==
    [id |-> Uuid4(1), page |-> annotation.page, x |-> annotation.x, y |-> annotation.y,
     text |-> annotation.text, author_id |-> u, created_at |-> now, updated_at |-> now]

\* lines 1604-1613: new_annotation
NewAnnotation(annotation, u, now, n) ==
    [id |-> Uuid4(n), page |-> annotation.page, x |-> annotation.x, y |-> annotation.y,
     text |-> annotation.text, author_id |-> u, created_at |-> now, updated_at |-> now]

Idle ==
    [op |-> "idle", pc |-> "idle", user |-> 0, doc |-> 0, rf |-> FALSE,
     input |-> <<>>, anns |-> <<>>, built |-> Absent, ret |-> <<>>, key |-> <<>>]

Set(r, rec) == reqs' = [reqs EXCEPT ![r] = rec]
Goto(r, pc) == reqs' = [reqs EXCEPT ![r].pc = pc]

\* the uploaded originals, one object per FileAsset row
Originals == [k \in {FileKey(d) : d \in Docs} |-> Original]

\* what an earlier save of reviewer u, at time 0, left in the sidecar
PriorList(u) == SaveList(<<>>, <<CHOOSE a \in ClientAnns : a.created_at = 0>>, u, 0)

\* what an earlier bake of reviewer u left under the baked key
PriorBaked(u) ==
    PdfDoc(_build_baked_pdf_bytes(PriorList(u),
               [fitz |-> TRUE, valid |-> TRUE, underlay |-> TRUE]).pages)

\* The process starts with an empty size cache over a store and a database
\* that outlive it: either nobody has reviewed yet, or reviewer 2 has a
\* session, a saved sidecar and the artifact baked from it.
StoreInit ==
    /\ \E prior \in SUBSET {2} :
           /\ storage = IF prior = {} THEN Originals
                         ELSE Put(Put(Originals, AnnKeyOf(1, 2), JsonDoc(PriorList(2))),
                                  BakedKeyOf(1, 2), PriorBaked(2))
           /\ sessions = {<<1, u>> : u \in prior}
    /\ cache = <<>>
    /\ files = Docs
    /\ reqs = [r \in Slots |-> Idle]
    /\ clock = 1
    /\ uuids = 0
    /\ started = 0

Init == StoreInit /\ KeyIdle /\ BakeIdle

\* A request goes to the first free worker slot.
Receive(r) ==
    /\ reqs[r].op = "idle"
    /\ \A q \in Slots : q < r => reqs[q].op # "idle"
    /\ started < MaxStarts
    /\ started' = started + 1

\* save_pdf_annotations, lines 1381-1431: the session row, then annotations_list
SaveBegin(r, u, d, input, rf) ==
    /\ d \in files
    /\ sessions' = sessions \cup {<<d, u>>}
    /\ Set(r, [Idle EXCEPT !.op = "save", !.pc = "upload", !.user = u, !.doc = d, !.rf = rf,
                           !.input = input,
                           !.anns = SaveList(get_json(storage, AnnKeyOf(d, u)), input, u, clock)])
    /\ UNCHANGED <<storage, cache, files, clock, uuids, keyVars, bakeVars>>

\* a save request is received and handled up to its upload
StartSave(r, u, d, input, rf) == Receive(r) /\ SaveBegin(r, u, d, input, rf)

\* save_pdf_annotations, line 1432 and 1465-1466
SaveUpload(r) ==
    /\ reqs[r].op = "save" /\ reqs[r].pc = "upload"
    /\ \/ /\ storage' = upload_json(storage, AnnKeyOf(reqs[r].doc, reqs[r].user), reqs[r].anns)
          /\ Goto(r, IF reqs[r].rf THEN "reload" ELSE "done")
       \/ /\ storage' = upload_failed(storage, AnnKeyOf(reqs[r].doc, reqs[r].user))
          /\ Goto(r, "failed")
    /\ UNCHANGED <<cache, files, sessions, clock, uuids, started, keyVars, bakeVars>>

\* save_pdf_annotations, lines 1434-1453: return_full == 1
SaveReload(r) ==
    /\ reqs[r].op = "save" /\ reqs[r].pc = "reload"
    /\ \/ Set(r, [reqs[r] EXCEPT !.pc = "done",
                     !.ret = LoadView(get_json(storage, AnnKeyOf(reqs[r].doc, reqs[r].user)))])
       \/ Goto(r, "failed")
    /\ UNCHANGED <<storage, cache, files, sessions, clock, uuids, started, keyVars, bakeVars>>

\* get_pdf_annotations
Load(r, u, d) ==
    /\ Receive(r)
    /\ d \in files
    /\ \/ Set(r, [Idle EXCEPT !.op = "load", !.pc = "done", !.user = u, !.doc = d,
                              !.ret = LoadView(get_json(storage, AnnKeyOf(d, u)))])
       \/ Set(r, [Idle EXCEPT !.op = "load", !.pc = "failed", !.user = u, !.doc = d])
    /\ UNCHANGED <<storage, cache, files, sessions, clock, uuids, keyVars, bakeVars>>

\* add_pdf_annotation, lines 1571-1614: the session row, the load, the new record
StartAppend(r, u, d, annotation) ==
    /\ Receive(r)
    /\ d \in files
    /\ sessions' = sessions \cup {<<d, u>>}
    /\ \/ /\ Set(r, [Idle EXCEPT !.op = "append", !.pc = "upload", !.user = u, !.doc = d,
                                 !.input = <<annotation>>,
                                 !.anns = Append(get_json(storage, AnnKeyOf(d, u)),
                                                 NewAnnotation(annotation, u, clock, uuids + 1))])
          /\ uuids' = uuids + 1
       \/ /\ Set(r, [Idle EXCEPT !.op = "append", !.pc = "failed", !.user = u, !.doc = d])
          /\ uuids' = uuids
    /\ UNCHANGED <<storage, cache, files, clock, keyVars, bakeVars>>

\* add_pdf_annotation, lines 1617-1629
AppendUpload(r) ==
    /\ reqs[r].op = "append" /\ reqs[r].pc = "upload"
    /\ \/ /\ storage' = upload_json(storage, AnnKeyOf(reqs[r].doc, reqs[r].user), reqs[r].anns)
          /\ Set(r, [reqs[r] EXCEPT !.pc = "done",
                        !.ret = LoadView(<<reqs[r].anns[Len(reqs[r].anns)]>>)])
       \/ /\ storage' = upload_failed(storage, AnnKeyOf(reqs[r].doc, reqs[r].user))
          /\ Goto(r, "failed")
    /\ UNCHANGED <<cache, files, sessions, clock, uuids, started, keyVars, bakeVars>>

\* bake_review_pdf, lines 1484-1510: the session check and the annotation load
BakeBegin(r, u, d) ==
    /\ d \in files
    /\ \/ /\ <<d, u>> \in sessions
          /\ Set(r, [Idle EXCEPT !.op = "bake", !.pc = "read", !.user = u, !.doc = d,
                                 !.anns = get_json(storage, AnnKeyOf(d, u))])
       \/ Set(r, [Idle EXCEPT !.op = "bake", !.pc = "failed", !.user = u, !.doc = d])
    /\ UNCHANGED <<storage, cache, files, sessions, clock, uuids, keyVars, bakeVars>>

\* a bake request is received and handled up to its read of the original
StartBake(r, u, d) == Receive(r) /\ BakeBegin(r, u, d)

\* bake_review_pdf, lines 1513-1526: read the original, build the baked bytes
BakeRead(r, fitz) ==
    /\ reqs[r].op = "bake" /\ reqs[r].pc = "read"
    /\ LET src == Get(storage, BakeSourceKey(reqs[r].doc, reqs[r].user))
           out == _build_baked_pdf_bytes(reqs[r].anns,
                      [fitz |-> fitz, valid |-> src.kind = "pdf", underlay |-> TRUE])
       IN  \/ /\ src.kind # "absent" /\ out.status = "ok"
              /\ Set(r, [reqs[r] EXCEPT !.pc = "upload",
                            !.built = PdfDoc(SavedPages(src.pages, out.pages))])
           \/ /\ src.kind # "absent" /\ out.status # "ok"
              /\ Goto(r, "failed")
           \/ /\ fitz
              /\ Goto(r, "failed")
    /\ UNCHANGED <<storage, cache, files, sessions, clock, uuids, started, keyVars, bakeVars>>

\* bake_review_pdf, lines 1529-1539
BakeUpload(r) ==
    /\ reqs[r].op = "bake" /\ reqs[r].pc = "upload"
    /\ \/ /\ storage' = upload_stream(storage, BakedKeyOf(reqs[r].doc, reqs[r].user), reqs[r].built)
          /\ Set(r, [reqs[r] EXCEPT !.pc = "cache",
                        !.key = BakedKeyOf(reqs[r].doc, reqs[r].user)])
       \/ /\ storage' = upload_failed(storage, BakedKeyOf(reqs[r].doc, reqs[r].user))
          /\ Goto(r, "failed")
    /\ UNCHANGED <<cache, files, sessions, clock, uuids, started, keyVars, bakeVars>>

\* bake_review_pdf, lines 1543-1561
BakeCache(r) ==
    /\ reqs[r].op = "bake" /\ reqs[r].pc = "cache"
    /\ cache' = Put(cache, reqs[r].key,
                    <<Size(reqs[r].built), clock + _OBJECT_SIZE_CACHE_TTL_SECONDS>>)
    /\ Goto(r, "done")
    /\ UNCHANGED <<storage, files, sessions, clock, uuids, started, keyVars, bakeVars>>

\* the response is sent and the worker takes the next request
Finish(r) ==
    /\ reqs[r].pc \in {"done", "failed"}
    /\ Set(r, Idle)
    /\ UNCHANGED <<storage, cache, files, sessions, clock, uuids, started, keyVars, bakeVars>>

Next ==
    \E r \in Slots :
        \/ \E u \in Reviewers, d \in Docs, input \in SaveInputs, rf \in BOOLEAN :
               StartSave(r, u, d, input, rf)
        \/ SaveUpload(r)
        \/ SaveReload(r)
        \/ \E u \in Reviewers, d \in Docs : Load(r, u, d)
        \/ \E u \in Reviewers, d \in Docs, a \in AppendInputs : StartAppend(r, u, d, a)
        \/ AppendUpload(r)
        \/ \E u \in Reviewers, d \in Docs : StartBake(r, u, d)
        \/ \E fitz \in BOOLEAN : BakeRead(r, fitz)
        \/ BakeUpload(r)
        \/ BakeCache(r)
        \/ Finish(r)

Spec == Init /\ [][Next]_vars

----------------------------------------------------------------------------
(* One reviewer saving and baking again and again: the shortest run in which
   two bakes of different annotation sets overlap takes three requests. *)

RaceStarts == MaxStarts + 1

\* the reviewer who has a session, a saved sidecar and a baked artifact
Baker == 2

RaceReceive(r) ==
    /\ reqs[r].op = "idle"
    /\ \A q \in Slots : q < r => reqs[q].op # "idle"
    /\ started < RaceStarts
    /\ started' = started + 1

RaceInit ==
    /\ storage = Put(Put(Originals, AnnKeyOf(1, Baker), JsonDoc(PriorList(Baker))),
                     BakedKeyOf(1, Baker), PriorBaked(Baker))
    /\ sessions = {<<1, Baker>>}
    /\ cache = <<>>
    /\ files = Docs
    /\ reqs = [r \in Slots |-> Idle]
    /\ clock = 1
    /\ uuids = 0
    /\ started = 0
    /\ KeyIdle
    /\ BakeIdle

RaceNext ==
    \E r \in Slots :
        \/ \E d \in Docs, input \in SaveInputs :
               RaceReceive(r) /\ SaveBegin(r, Baker, d, input, FALSE)
        \/ SaveUpload(r)
        \/ \E d \in Docs : RaceReceive(r) /\ BakeBegin(r, Baker, d)
        \/ \E fitz \in BOOLEAN : BakeRead(r, fitz)
        \/ BakeUpload(r)
        \/ BakeCache(r)
        \/ Finish(r)

RaceSpec == RaceInit /\ [][RaceNext]_vars

----------------------------------------------------------------------------
(* routers/files.py: delete_project_file, routers/projects.py: delete_project,
   minio/service.py: delete_objects *)

\* f"reviews/{review.id}/annotations.json": the Review row of file d has id d
ReviewKey(d) ==
    <<"r", "e", "v", "i", "e", "w", "s", "/">> \o IntToStr(d) \o <<"/">>
        \o DefaultAnnBase \o DotJson

\* the dedup loop: keys are trimmed, empty and repeated ones dropped, order kept
RECURSIVE Dedup(_, _)
Dedup(keys, seen) ==
    IF keys = <<>> THEN <<>>
    ELSE LET k == Strip(Head(keys))
         IN  IF k = <<>> \/ k \in seen THEN Dedup(Tail(keys), seen)
             ELSE <<k>> \o Dedup(Tail(keys), seen \cup {k})

\* the keys collected for one file: the original and the sidecars derived
\* from it without a user id, and the legacy key when a Review row exists
KeysOfFile(d, review) ==
    <<FileKey(d), derive_baked_key(FileKey(d), NoOwner),
      derive_annotations_key(FileKey(d), NoOwner)>>
        \o (IF review THEN <<ReviewKey(d)>> ELSE <<>>)

\* minio_client.remove_object on each of the first n keys; a key without
\* object is left as it is (ignore_missing)
RemoveFirst(store, keys, n) ==
    [k \in DOMAIN store \ {keys[i] : i \in 1..n} |-> store[k]]

\* delete_objects: the keys are removed one by one; fail_at is the position of
\* the key whose removal raises an S3Error other than NoSuchKey (0: none)
delete_objects(store, object_keys, fail_at) ==
    IF fail_at = 0
    THEN [store |-> RemoveFirst(store, object_keys, Len(object_keys)), raised |-> FALSE]
    ELSE [store |-> RemoveFirst(store, object_keys, fail_at - 1), raised |-> TRUE]

\* delete_project_file, lines 302-369: one request, handled in one piece
DeleteFile(r, d, review, fail_at) ==
    /\ Receive(r)
    /\ d \in files
    /\ LET keys == Dedup(KeysOfFile(d, review), {})
           res == delete_objects(storage, keys, fail_at)
       IN  /\ fail_at <= Len(keys)
           /\ storage' = res.store
           /\ IF res.raised
              THEN /\ files' = files
                   /\ Set(r, [Idle EXCEPT !.op = "delete", !.pc = "failed", !.doc = d])
              ELSE /\ files' = files \ {d}
                   /\ Set(r, [Idle EXCEPT !.op = "delete", !.pc = "done", !.doc = d])
    /\ UNCHANGED <<cache, sessions, clock, uuids, keyVars, bakeVars>>

\* the keys of all the files of the project, file after file
RECURSIVE KeysOfFiles(_, _)
KeysOfFiles(ds, review) ==
    IF ds = {} THEN <<>>
    ELSE LET d == CHOOSE x \in ds : \A y \in ds : x <= y
         IN  KeysOfFile(d, review) \o KeysOfFiles(ds \ {d}, review)

\* delete_project, lines 61-121: the rows go only after every object went
DeleteProject(r, review, fail_at) ==
    /\ Receive(r)
    /\ LET keys == Dedup(KeysOfFiles(files, review), {})
           res == delete_objects(storage, keys, fail_at)
       IN  /\ fail_at <= Len(keys)
           /\ storage' = res.store
           /\ IF res.raised
              THEN /\ files' = files
                   /\ Set(r, [Idle EXCEPT !.op = "delete_project", !.pc = "failed"])
              ELSE /\ files' = {}
                   /\ Set(r, [Idle EXCEPT !.op = "delete_project", !.pc = "done"])
    /\ UNCHANGED <<cache, sessions, clock, uuids, keyVars, bakeVars>>

\* the longest key list of one deletion
MaxKeys == 4 * Cardinality(Docs)

DeleteNext ==
    \/ Next
    \/ \E r \in Slots, review \in BOOLEAN, fail_at \in 0..MaxKeys :
           \/ \E d \in Docs : DeleteFile(r, d, review, fail_at)
           \/ DeleteProject(r, review, fail_at)

DeleteSpec == Init /\ [][DeleteNext]_vars

----------------------------------------------------------------------------
(* routers/reviews.py: start_review, stop_review, update_review_status.
   Here `sessions` holds the ReviewSession rows with their fields, as a
   function from <<file id, user id>> to the row; a timestamp that is None is
   written 0. *)

\* number of session requests the server receives
SessionStarts == MaxStarts + 2

\* ReviewStatusUpdate.status values a client sends
StatusInputs == {"in_progress", "request_revision", "approved", "pending", "done"}

SessionInit ==
    /\ sessions = <<>>
    /\ storage = Originals
    /\ cache = <<>>
    /\ files = Docs
    /\ reqs = <<>>
    /\ clock = 1
    /\ uuids = 0
    /\ started = 0
    /\ KeyIdle
    /\ BakeIdle

\* the request is handled at one instant of datetime.utcnow()
SessionStep ==
    /\ started < SessionStarts
    /\ started' = started + 1
    /\ clock' = clock + 1
    /\ UNCHANGED <<storage, cache, files, reqs, uuids, keyVars, bakeVars>>

\* start_review, lines 1049-1083
start_review(u, d) ==
    /\ d \in files
    /\ SessionStep
    /\ LET k == <<d, u>>
       IN  IF k \notin DOMAIN sessions
           THEN sessions' = Put(sessions, k,
                                [status |-> "in_progress", started_at |-> clock,
                                 completed_at |-> 0, updated_at |-> 0])
           ELSE sessions' = [sessions EXCEPT
                                ![k].status = "in_progress",
                                ![k].started_at = IF @ = 0 THEN clock ELSE @,
                                ![k].updated_at = clock]

\* stop_review, lines 1283-1309
stop_review(u, d) ==
    /\ <<d, u>> \in DOMAIN sessions
    /\ sessions[<<d, u>>].status \in {"in_progress", "request_revision", "approved"}
    /\ SessionStep
    /\ sessions' = [sessions EXCEPT ![<<d, u>>].status = "pending",
                                    ![<<d, u>>].completed_at = 0,
                                    ![<<d, u>>].updated_at = clock]

\* update_review_status, lines 1632-1663
update_review_status(u, d, status) ==
    /\ <<d, u>> \in DOMAIN sessions
    /\ status \in {"in_progress", "request_revision", "approved"}
    /\ SessionStep
    /\ sessions' = [sessions EXCEPT
                       ![<<d, u>>].status = status,
                       ![<<d, u>>].updated_at = clock,
                       ![<<d, u>>].completed_at =
                           IF status = "approved" THEN clock
                           ELSE IF status \in {"in_progress", "request_revision"} THEN 0
                           ELSE @]

SessionNext ==
    \E u \in Reviewers, d \in Docs :
        \/ start_review(u, d)
        \/ stop_review(u, d)
        \/ \E status \in StatusInputs : update_review_status(u, d, status)

SessionSpec == SessionInit /\ [][SessionNext]_vars

----------------------------------------------------------------------------
(* routers/reviews.py: the Range header and the size probe of the proxy *)

\* index of the first occurrence of character c in s, 0 when there is none
FirstIndexOf(s, c) ==
    LET hits == {i \in 1..Len(s) : s[i] = c}
    IN  IF hits = {} THEN 0 ELSE CHOOSE i \in hits : \A j \in hits : i <= j

\* str.split(c, 1): <<head, tail>>, or <<s>> when c is not in s
SplitOnce(s, c) ==
    LET i == FirstIndexOf(s, c)
    IN  IF i = 0 THEN <<s>> ELSE <<SubSeq(s, 1, i - 1), SubSeq(s, i + 1, Len(s))>>

Digits == {Digit(d) : d \in 0..9}
DigitValue(c) == CHOOSE d \in 0..9 : Digit(d) = c

RECURSIVE NatOf(_)
NatOf(ds) ==
    IF ds = <<>> THEN 0
    ELSE 10 * NatOf(SubSeq(ds, 1, Len(ds) - 1)) + DigitValue(ds[Len(ds)])

\* int(s): <<ok, n>>, ok FALSE when int() raises ValueError; surrounding
\* whitespace and one sign are accepted
IntParse(s) ==
    LET t == Strip(s)
        signed == t # <<>> /\ t[1] \in {"+", "-"}
        ds == IF signed THEN Tail(t) ELSE t
    IN  IF ds = <<>> \/ \E i \in 1..Len(ds) : ds[i] \notin Digits THEN <<FALSE, 0>>
        ELSE <<TRUE, IF signed /\ t[1] = "-" THEN -NatOf(ds) ELSE NatOf(ds)>>

\* Optional[int]: <<>> is None, <<n>> is n
NoSize == <<>>
KnownSize(n) == <<n>>

_MISSING_SIZE == -1
_OBJECT_MISS_TTL_SECONDS == 10

BytesUnit == <<"b", "y", "t", "e", "s">>

RangeRejected == [ok |-> FALSE, start |-> 0, end |-> 0]

\* the mutant: the end of the range is taken to be the last byte of the object
ParseRange_IgnoresEnd(range_header, total_size) ==
    LET uv == SplitOnce(range_header, "=")
        se == SplitOnce(Strip(uv[2]), "-")
        st == IF se[1] # <<>> THEN IntParse(se[1]) ELSE <<TRUE, 0>>
    IN  IF Len(uv) < 2 \/ Lower(Strip(uv[1])) # BytesUnit THEN RangeRejected
        ELSE IF Len(se) < 2 \/ ~st[1] THEN RangeRejected
        ELSE IF st[2] < 0 \/ total_size - 1 < st[2] THEN RangeRejected
        ELSE [ok |-> TRUE, start |-> st[2], end |-> total_size - 1]

\* lines 604-628: the Range header taken apart; ok FALSE where the code
\* raises (ValueError of its own, of int() or of an unpacking)
ParseRange(range_header, total_size) ==
    LET uv == SplitOnce(range_header, "=")
        unit == Lower(Strip(uv[1]))
        value == Strip(uv[2])
        se == SplitOnce(value, "-")
        st == IF se[1] # <<>> THEN IntParse(se[1]) ELSE <<TRUE, 0>>
        en == IF se[2] # <<>> THEN IntParse(se[2]) ELSE <<TRUE, total_size - 1>>
    IN  IF Len(uv) < 2 THEN RangeRejected
        ELSE IF unit # BytesUnit THEN RangeRejected
        ELSE IF FirstIndexOf(value, ",") # 0 THEN RangeRejected
        ELSE IF Len(se) < 2 THEN RangeRejected
        ELSE IF ~st[1] \/ ~en[1] THEN RangeRejected
        ELSE IF st[2] < 0 \/ en[2] < st[2] \/ en[2] >= total_size THEN RangeRejected
        ELSE [ok |-> TRUE, start |-> st[2], end |-> en[2]]

\* an uploaded file of zero bytes
EmptyFile == [kind |-> "empty", anns |-> <<>>, pages |-> <<>>]

\* stat_object(...).size
StatSize(obj) == IF obj.kind = "empty" THEN 0 ELSE Size(obj)

\* the mutant: an entry is still used at its expiry time
CacheFresh_AtExpiry(cached, now) == cached[2] >= now

\* line 62: cached[1] > now
CacheFresh(cached, now) == cached[2] > now

\* _probe_object_size_cached. outcome is what stat_object does when it is
\* called: "ok" (NoSuchKey when the object is absent), "denied", "error".
_probe_object_size_cached(cch, store, object_key, now, outcome) ==
    LET key == Strip(object_key)
        obj == Get(store, key)
        unknown == [size |-> NoSize, cache |-> cch, stat |-> FALSE, raised |-> FALSE]
    IN  IF key = <<>> THEN unknown
        ELSE IF key \in DOMAIN cch /\ CacheFresh(cch[key], now)
        THEN [unknown EXCEPT !.size = IF cch[key][1] = _MISSING_SIZE THEN NoSize
                                      ELSE KnownSize(cch[key][1])]
        ELSE IF outcome = "error" THEN [unknown EXCEPT !.stat = TRUE, !.raised = TRUE]
        ELSE IF outcome = "denied" \/ obj.kind = "absent"
        THEN [unknown EXCEPT !.stat = TRUE,
                             !.cache = Put(cch, key,
                                           <<_MISSING_SIZE, now + _OBJECT_MISS_TTL_SECONDS>>)]
        ELSE [size |-> KnownSize(StatSize(obj)),
              cache |-> Put(cch, key, <<StatSize(obj), now + _OBJECT_SIZE_CACHE_TTL_SECONDS>>),
              stat |-> TRUE, raised |-> FALSE]

\* the mutant: a Range header is honoured whatever is known of the size
supports_range_Always(total_size) == TRUE

\* line 603: isinstance(total_size, int) and total_size > 0
supports_range(total_size) == total_size # NoSize /\ total_size[1] > 0

\* lines 713-714: the `except Exception` around the whole body answers 500 for
\* whatever the body raised, the HTTPException(416) of line 630 included
proxy_except(raised) == 500

----------------------------------------------------------------------------
(* routers/reviews.py: proxy_file_for_viewer *)

ProxySlots == {1}

\* <<x_user_id, reviewer_user_id>>: reviewer 1 asks for its own variant or for
\* the one of reviewer 2
ProxyCallers == {<<1, NoOwner>>, <<1, Owner(2)>>}

BakedWord == <<"b", "a", "k", "e", "d">>

\* the `variant` query parameter
ProxyVariants == {<<>>, BakedWord, <<"B", "a", "k", "e", "d">>}

BytesEq == <<"b", "y", "t", "e", "s", "=">>

\* "bytes=a-b" and "bytes=a-"
RangeOf(a, b) == BytesEq \o IntToStr(a) \o <<"-">> \o IntToStr(b)
RangeFrom(a) == BytesEq \o IntToStr(a) \o <<"-">>

\* multi-range, another unit, no "=", not a number, no "-", a suffix range,
\* and a single range written with capitals and blanks
MultiRange == BytesEq \o <<"0", "-", "0", ",", "1", "-", "1">>
ItemsRange == <<"i", "t", "e", "m", "s", "=", "0", "-", "1">>
BareUnit == <<"b", "y", "t", "e", "s">>
WordRange == BytesEq \o <<"x", "-", "1">>
DashlessRange == BytesEq \o <<"1">>
SuffixRange == BytesEq \o <<"-", "1">>
SpacedRange == <<"B", "Y", "T", "E", "S", " ", "=", " ", "0", " ", "-", " ", "1", " ">>

\* the Range header of a request; <<>> when there is none
RangeHeaders ==
    {<<>>, MultiRange, ItemsRange, BareUnit, WordRange, DashlessRange, SuffixRange, SpacedRange}
        \cup {RangeOf(a, b) : a, b \in 0..MaxByte}
        \cup {RangeFrom(a) : a \in 0..MaxByte}

\* the sizes an object of the store can have
ObjectSizes == 0..Max(StatSize(Original), StatSize(PriorBaked(2)))

\* ParseRange on every generated header and size, computed once
ParsedRanges == [h \in RangeHeaders, n \in ObjectSizes |-> ParseRange(h, n)]

StatOutcomes == {"ok", "denied", "error"}

NoHeaders == [accept_ranges |-> FALSE, content_range |-> <<>>, content_length |-> <<>>]

ProxyIdle ==
    [op |-> "idle", pc |-> "idle", user |-> 0, doc |-> 0, range |-> <<>>, variant |-> <<>>,
     row_size |-> 0, key |-> <<>>, total_size |-> NoSize, from |-> "", stat |-> FALSE,
     ranged |-> FALSE, is_partial |-> FALSE, start |-> 0, end |-> 0,
     read |-> <<>>, handle |-> "none", gen |-> "none", sent |-> 0,
     status |-> 0, error |-> "", headers |-> NoHeaders]

\* the store and the process when the proxy starts serving: reviewer 2 has
\* baked and reviewer 1 has not, or the uploaded original is a zero-byte file
ProxyInit ==
    /\ storage \in {Put(Originals, BakedKeyOf(1, 2), PriorBaked(2)),
                     [k \in {FileKey(d) : d \in Docs} |-> EmptyFile]}
    /\ cache = <<>>
    /\ files = Docs
    /\ sessions = {}
    /\ reqs = [r \in ProxySlots |-> ProxyIdle]
    /\ clock = 1
    /\ uuids = 0
    /\ started = 0
    /\ KeyIdle
    /\ BakeIdle

\* lines 565-630: the key, the size (row, cache or stat) and the Range header
ProxyStart(r, caller, d, range_header, variant, row_size, outcome) ==
    /\ Receive(r)
    /\ d \in files
    /\ LET uid == IF caller[2] # NoOwner THEN caller[2][1] ELSE caller[1]
           preferred_key == IF Lower(variant) = BakedWord THEN BakedKeyOf(d, uid) ELSE FileKey(d)
           from_row == preferred_key = FileKey(d) /\ row_size > 0
           probe == _probe_object_size_cached(cache, storage, preferred_key, clock, outcome)
           total_size == IF from_row THEN KnownSize(row_size) ELSE probe.size
           ranged == supports_range(total_size)
           total == IF total_size = NoSize THEN 0 ELSE total_size[1]
           parsed == ParsedRanges[range_header, total]
           is_partial == range_header # <<>> /\ ranged
           rec == [ProxyIdle EXCEPT !.op = "proxy", !.user = caller[1], !.doc = d,
                                    !.range = range_header, !.variant = variant,
                                    !.row_size = row_size, !.key = preferred_key,
                                    !.stat = ~from_row /\ probe.stat,
                                    !.from = IF from_row THEN "row"
                                             ELSE IF probe.stat THEN "stat" ELSE "cache"]
       IN  /\ cache' = IF from_row THEN cache ELSE probe.cache
           /\ IF ~from_row /\ probe.raised
              THEN Set(r, [rec EXCEPT !.pc = "over", !.error = "storage",
                                      !.status = proxy_except("S3Error")])
              ELSE IF is_partial /\ ~parsed.ok
              THEN Set(r, [rec EXCEPT !.pc = "over", !.error = "range",
                                      !.total_size = total_size, !.ranged = ranged,
                                      !.status = proxy_except(416)])
              ELSE Set(r, [rec EXCEPT !.pc = "get", !.total_size = total_size,
                                      !.ranged = ranged, !.is_partial = is_partial,
                                      !.start = IF is_partial THEN parsed.start ELSE 0,
                                      !.end = IF is_partial THEN parsed.end
                                              ELSE IF ranged THEN total - 1 ELSE 0])
    /\ UNCHANGED <<storage, files, sessions, clock, uuids, keyVars, bakeVars>>

\* lines 632-639: minio_client.get_object(offset, length); length <<>> is None
ProxyGet(r, fail) ==
    /\ reqs[r].op = "proxy" /\ reqs[r].pc = "get"
    /\ LET q == reqs[r]
           offset == IF q.is_partial THEN q.start ELSE 0
           length == IF q.is_partial THEN KnownSize((q.end - q.start) + 1) ELSE NoSize
       IN  IF Get(storage, q.key).kind = "absent"
           THEN Set(r, [q EXCEPT !.pc = "over", !.error = "missing",
                                 !.status = proxy_except("NoSuchKey")])
           ELSE IF fail
           THEN Set(r, [q EXCEPT !.pc = "over", !.error = "storage",
                                 !.status = proxy_except("S3Error")])
           ELSE Set(r, [q EXCEPT !.pc = "respond", !.handle = "open",
                                 !.read = <<<<offset, length>>>>])
    /\ UNCHANGED <<storage, cache, files, sessions, clock, uuids, started, keyVars, bakeVars>>

\* lines 643-712: the generator object, the headers and the StreamingResponse;
\* err is an exception raised on the way (no handler closes the response)
ProxyRespond(r, err) ==
    /\ reqs[r].op = "proxy" /\ reqs[r].pc = "respond"
    /\ LET q == reqs[r]
           total == IF q.total_size = NoSize THEN 0 ELSE q.total_size[1]
           span == IntToStr((q.end - q.start) + 1)
       IN  IF err
           THEN Set(r, [q EXCEPT !.pc = "over", !.error = "internal",
                                 !.status = proxy_except("Exception")])
           ELSE Set(r, [q EXCEPT !.pc = "stream", !.gen = "created",
                           !.status = IF q.is_partial THEN 206 ELSE 200,
                           !.headers =
                               [accept_ranges |-> q.ranged,
                                content_range |->
                                    IF q.is_partial /\ q.ranged
                                    THEN <<"b", "y", "t", "e", "s", " ">> \o IntToStr(q.start)
                                             \o <<"-">> \o IntToStr(q.end)
                                             \o <<"/">> \o IntToStr(total)
                                    ELSE <<>>,
                                content_length |->
                                    IF q.is_partial /\ q.ranged THEN span
                                    ELSE IF q.ranged THEN IntToStr(total) ELSE <<>>]])
    /\ UNCHANGED <<storage, cache, files, sessions, clock, uuids, started, keyVars, bakeVars>>

\* lines 643-653, one next() of generate(): the first read returns all the
\* bytes asked for (they fit one 512 KiB chunk), the read after it returns
\* b"", the loop ends and the finally block closes and releases the response
ProxyNextChunk(r) ==
    /\ reqs[r].op = "proxy" /\ reqs[r].pc = "stream"
    /\ LET q == reqs[r]
           n == IF q.read[1][2] # NoSize THEN q.read[1][2][1]
                ELSE StatSize(Get(storage, q.key))
       IN  IF q.gen = "created" /\ n > 0
           THEN Set(r, [q EXCEPT !.gen = "suspended", !.sent = n])
           ELSE Set(r, [q EXCEPT !.gen = "finished", !.handle = "closed", !.pc = "over"])
    /\ UNCHANGED <<storage, cache, files, sessions, clock, uuids, started, keyVars, bakeVars>>

\* the client goes away: a generator suspended at its yield is closed and runs
\* its finally block; one that was never started is dropped without running
\* any of its code
ProxyDisconnect(r) ==
    /\ reqs[r].op = "proxy" /\ reqs[r].pc = "stream"
    /\ IF reqs[r].gen = "suspended"
       THEN Set(r, [reqs[r] EXCEPT !.gen = "closed", !.handle = "closed", !.pc = "over"])
       ELSE Set(r, [reqs[r] EXCEPT !.gen = "dropped", !.pc = "over"])
    /\ UNCHANGED <<storage, cache, files, sessions, clock, uuids, started, keyVars, bakeVars>>

\* the request is over and the worker takes the next one
ProxyFinish(r) ==
    /\ reqs[r].op = "proxy" /\ reqs[r].pc = "over"
    /\ Set(r, ProxyIdle)
    /\ UNCHANGED <<storage, cache, files, sessions, clock, uuids, started, keyVars, bakeVars>>

\* the last moment at which a cache entry is still usable, and the moment at
\* which it expires
Instants == UNION {{cache[k][2] - 1, cache[k][2]} : k \in DOMAIN cache}

\* time.time() moves on between two requests (a request reads it once, in the
\* size probe)
Tick ==
    /\ \A r \in DOMAIN reqs : reqs[r].op = "idle"
    /\ started < MaxStarts
    /\ \E t \in Instants : t > clock /\ clock' = t
    /\ UNCHANGED <<storage, cache, files, sessions, reqs, uuids, started, keyVars, bakeVars>>

ProxyNext ==
    \/ \E r \in ProxySlots :
           \/ /\ reqs[r].op = "idle"
              /\ \E caller \in ProxyCallers, d \in Docs, range_header \in RangeHeaders,
                     variant \in ProxyVariants, outcome \in StatOutcomes :
                     \E row_size \in {0, StatSize(Get(storage, FileKey(d)))} :
                         ProxyStart(r, caller, d, range_header, variant, row_size, outcome)
           \/ \E fail \in BOOLEAN : ProxyGet(r, fail)
           \/ \E err \in BOOLEAN : ProxyRespond(r, err)
           \/ ProxyNextChunk(r)
           \/ ProxyDisconnect(r)
           \/ ProxyFinish(r)
    \/ Tick

ProxySpec == ProxyInit /\ [][ProxyNext]_vars

----------------------------------------------------------------------------
(* Properties of the review endpoints *)

\* the fields of a record a client sends and gets back
Core(list) ==
    [i \in 1..Len(list) |->
        [id |-> list[i].id, page |-> list[i].page, x |-> list[i].x, y |-> list[i].y,
         text |-> list[i].text]]

\* slot r takes a step of a request of the given kinds
Steps(r, ops) ==
    /\ reqs'[r] # reqs[r]
    /\ \/ reqs[r].op \in ops
       \/ reqs[r].op = "idle" /\ reqs'[r].op \in ops

\* the reviewer on whose behalf slot r takes its step
ActorOf(r) == IF reqs[r].op = "idle" THEN reqs'[r].user ELSE reqs[r].user

\* the document slot r works on in its step
DocOf(r) == IF reqs[r].op = "idle" THEN reqs'[r].doc ELSE reqs[r].doc

\* C1: every step of a save, an append or a bake of reviewer A leaves the
\* stored annotation set and the baked artifact of every other reviewer B, for
\* every document, as they were.
C1_OtherReviewerUntouched ==
    [][\A r \in Slots :
           Steps(r, {"save", "append", "bake"}) =>
               \A B \in Reviewers \ {ActorOf(r)}, d \in Docs :
                   /\ Get(storage', AnnKeyOf(d, B)) = Get(storage, AnnKeyOf(d, B))
                   /\ Get(storage', BakedKeyOf(d, B)) = Get(storage, BakedKeyOf(d, B))]_vars

\* reviewer 2 holds annotations and a baked artifact, and reviewer 1 has
\* completed a save of its own annotations on the same document
C1_Witness ==
    \E r \in Slots :
        /\ reqs[r].op = "save" /\ reqs[r].pc = "done" /\ reqs[r].user = 1
        /\ get_json(storage, AnnKeyOf(reqs[r].doc, 1)) # <<>>
        /\ get_json(storage, AnnKeyOf(reqs[r].doc, 2)) # <<>>
        /\ Get(storage, BakedKeyOf(reqs[r].doc, 2)).kind = "pdf"

\* C4: at the moment a save has stored its list, a load for the same document
\* and owner returns the records of the request, in their order, with their
\* id, page, x, y and text, whatever the sidecar held before.
C4_SaveThenLoadRoundTrip ==
    [][\A r \in Slots :
           (reqs[r].op = "save" /\ reqs[r].pc = "upload" /\ reqs'[r].pc \in {"reload", "done"}) =>
               Core(LoadView(get_json(storage', AnnKeyOf(reqs[r].doc, reqs[r].user))))
                   = Core(reqs[r].input)]_vars

\* a save of two records has replaced the different list of an earlier save
C4_Witness ==
    \E r, q \in Slots :
        /\ r # q
        /\ reqs[r].op = "save" /\ reqs[r].pc = "done" /\ reqs[r].rf
        /\ reqs[q].op = "save" /\ reqs[q].pc = "done"
        /\ reqs[q].user = reqs[r].user /\ reqs[q].doc = reqs[r].doc
        /\ Len(reqs[r].input) = 2 /\ reqs[q].input # <<>> /\ reqs[q].input # reqs[r].input
        /\ Core(reqs[r].ret) = Core(reqs[r].input)
        /\ Core(get_json(storage, AnnKeyOf(reqs[r].doc, reqs[r].user))) = Core(reqs[r].input)

C6_BakeWritesOnlyDerivedKey ==
    [][\A r \in Slots :
           Steps(r, {"bake"}) =>
               LET bk == derive_baked_key(FileKey(DocOf(r)), Owner(ActorOf(r)))
               IN  /\ reqs'[r].pc = "cache" =>
                          /\ Get(storage', bk) = reqs[r].built
                          /\ \A k \in (DOMAIN storage \cup DOMAIN storage') \ {bk} :
                                 Get(storage', k) = Get(storage, k)
                          /\ bk # FileKey(DocOf(r))
                          /\ bk # derive_annotations_key(FileKey(DocOf(r)), Owner(ActorOf(r)))
                   /\ reqs'[r].pc # "cache" => storage' = storage
                   /\ reqs'[r].pc = "done" => reqs'[r].key = bk]_vars

\* a bake has completed and its artifact, with drawn content, is stored
\* under the key it returned
C6_Witness ==
    \E r \in Slots :
        /\ reqs[r].op = "bake" /\ reqs[r].pc = "done"
        /\ reqs[r].anns # <<>>
        /\ reqs[r].key = derive_baked_key(FileKey(reqs[r].doc), Owner(reqs[r].user))
        /\ Get(storage, reqs[r].key) = reqs[r].built
        /\ Size(reqs[r].built) > Size(Original)
        /\ Get(storage, FileKey(reqs[r].doc)) = Original

\* C7: a bake that fails has changed no object in any of its steps (once its
\* upload has succeeded a bake no longer fails), and the store never holds a
\* partially written object.
C7_FailedBakeLeavesNoArtifact ==
    [][/\ \A k \in DOMAIN storage' : storage'[k].kind \in {"json", "pdf"}
       /\ \A r \in Slots :
              Steps(r, {"bake"}) =>
                  /\ reqs'[r].pc # "cache" => storage' = storage
                  /\ reqs[r].pc = "cache" => reqs'[r].pc # "failed"]_vars

\* a bake failed at its upload while an earlier baked artifact is stored
C7_Witness ==
    \E r \in Slots :
        /\ reqs[r].op = "bake" /\ reqs[r].pc = "failed"
        /\ reqs[r].built.kind = "pdf"
        /\ Get(storage, BakedKeyOf(reqs[r].doc, reqs[r].user)).kind = "pdf"

\* the draw operations on the pages of a document issued for annotation i
DrawCount(pages, i) ==
    Cardinality({<<p, k>> \in (DOMAIN pages) \X (1..(2 * MaxList + 4)) :
                    k <= Len(pages[p]) /\ pages[p][k].src = i})

\* C12: the artifact a bake stores is the original with the annotation set the
\* call loaded drawn onto it, each annotation once, whatever artifact was stored
\* under the baked key before; baking again over an artifact baked from the
\* same set stores the same pages.
C12_BakeIgnoresEarlierArtifact ==
    [][\A r \in Slots :
           (reqs[r].op = "bake" /\ reqs[r].pc = "upload" /\ reqs'[r].pc = "cache") =>
               LET bk == BakedKeyOf(reqs[r].doc, reqs[r].user)
                   once == _build_baked_pdf_bytes(reqs[r].anns,
                               [fitz |-> TRUE, valid |-> TRUE, underlay |-> TRUE])
               IN  /\ once.status = "ok"
                   /\ Get(storage', bk) = PdfDoc(SavedPages(Original.pages, once.pages))
                   /\ \A i \in 1..Len(reqs[r].anns) :
                          DrawCount(Get(storage', bk).pages, i) = 1]_vars

\* reviewer 2, whose earlier artifact was baked from the stored set, has baked
\* again and the stored artifact is the same
C12_Witness ==
    \E r \in Slots :
        /\ reqs[r].op = "bake" /\ reqs[r].pc = "done" /\ reqs[r].user = 2
        /\ reqs[r].anns = PriorList(2)
        /\ reqs[r].built = PriorBaked(2)
        /\ Get(storage, BakedKeyOf(reqs[r].doc, 2)) = PriorBaked(2)

----------------------------------------------------------------------------
(* Properties of the proxy *)

\* the request has been answered with a streaming response
Answered(q) == q.op = "proxy" /\ q.status \in {200, 206}

\* "bytes a-b/S"
ContentRangeOf(a, b, size) ==
    <<"b", "y", "t", "e", "s", " ">> \o IntToStr(a) \o <<"-">> \o IntToStr(b)
        \o <<"/">> \o IntToStr(size)

\* the request names the span a..b of an object of known size: bytes=a-b, or
\* bytes=a- when b is the last byte
NamesSpan(q, a, b) ==
    /\ q.op = "proxy" /\ q.total_size # NoSize
    /\ a <= b /\ b < q.total_size[1]
    /\ \/ q.range = RangeOf(a, b)
       \/ q.range = RangeFrom(a) /\ b = q.total_size[1] - 1

\* C14: a request for the span a..b of an object of known size S, with
\* 0 <= a <= b < S, is never rejected for its Range header; its storage read
\* has offset a and length b-a+1; its response has status 206, Content-Range
\* "bytes a-b/S" and Content-Length b-a+1, and a stream read to the end
\* carries b-a+1 bytes.
C14_ValidRangeServedPartially ==
    \A r \in DOMAIN reqs : \A a, b \in 0..MaxByte :
        NamesSpan(reqs[r], a, b) =>
            LET q == reqs[r]
            IN  /\ q.error # "range"
                /\ q.read # <<>> => q.read[1] = <<a, KnownSize((b - a) + 1)>>
                /\ Answered(q) =>
                       /\ q.status = 206
                       /\ q.headers.content_range = ContentRangeOf(a, b, q.total_size[1])
                       /\ q.headers.content_length = IntToStr((b - a) + 1)
                /\ q.gen \in {"suspended", "finished"} => q.sent = (b - a) + 1

\* bytes=1-2 of the original was served and read to the end
C14_Witness ==
    \E r \in DOMAIN reqs :
        /\ reqs[r].op = "proxy" /\ reqs[r].range = RangeOf(1, 2)
        /\ reqs[r].total_size = KnownSize(StatSize(Original))
        /\ reqs[r].status = 206 /\ reqs[r].gen = "finished" /\ reqs[r].sent = 2
        /\ reqs[r].read = <<<<1, KnownSize(2)>>>>

\* the Range header is one the claim calls invalid for an object of size S
InvalidRange(range_header, size) ==
    \/ range_header \in {MultiRange, ItemsRange, BareUnit, WordRange, DashlessRange}
    \/ \E a, b \in 0..MaxByte : range_header = RangeOf(a, b) /\ (b < a \/ b >= size)
    \/ \E a \in 0..MaxByte : range_header = RangeFrom(a) /\ a >= size

\* C15 as stated: with the size known, a multi-range, malformed, non-bytes or
\* out-of-object Range header is answered with status 416 and no storage read.
C15_InvalidRangeAnswered416 ==
    \A r \in DOMAIN reqs :
        (/\ reqs[r].op = "proxy" /\ reqs[r].status # 0
         /\ reqs[r].total_size # NoSize
         /\ InvalidRange(reqs[r].range, reqs[r].total_size[1]))
            => (reqs[r].status = 416 /\ reqs[r].read = <<>>)

\* C16: a request without Range header, or for an object of unknown size, is
\* never rejected for its Range header; its storage read starts at offset 0
\* with no length; its response has status 200 and no Content-Range, and a
\* stream read to the end carries the whole object.
C16_FullResponseWithoutRangeOrSize ==
    \A r \in DOMAIN reqs :
        (reqs[r].op = "proxy" /\ (reqs[r].range = <<>> \/ reqs[r].total_size = NoSize)) =>
            LET q == reqs[r]
            IN  /\ q.error # "range"
                /\ q.read # <<>> => q.read[1] = <<0, NoSize>>
                /\ Answered(q) => (q.status = 200 /\ q.headers.content_range = <<>>)
                /\ q.gen \in {"suspended", "finished"} =>
                       q.sent = StatSize(Get(storage, q.key))

\* the size could not be learnt (stat denied) and the request, although it
\* names a byte range, was served whole
C16_Witness ==
    \E r \in DOMAIN reqs :
        /\ reqs[r].op = "proxy" /\ reqs[r].range = RangeOf(0, 1)
        /\ reqs[r].stat /\ reqs[r].total_size = NoSize
        /\ reqs[r].status = 200 /\ reqs[r].gen = "finished"
        /\ reqs[r].sent = StatSize(Original)

\* C17 as stated: every response for an object whose size is known, a size of
\* 0 bytes included, carries Accept-Ranges: bytes.
C17_AcceptRangesWhenSizeKnown ==
    \A r \in DOMAIN reqs :
        (Answered(reqs[r]) /\ reqs[r].total_size # NoSize) => reqs[r].headers.accept_ranges

\* C18 as stated: a request for a variant whose object does not exist is
\* answered with status 404.
C18_MissingObjectAnswered404 ==
    \A r \in DOMAIN reqs :
        (reqs[r].op = "proxy" /\ reqs[r].error = "missing") => reqs[r].status = 404

\* C19: a request issues a stat exactly when the row gives no positive size for
\* the requested key and the cache holds no entry for it that expires later
\* than now; a size taken from the cache comes from such an entry; an entry
\* written by the probe lives 300 s when it holds a size and 10 s when it
\* marks the object missing.
C19_ProbeOnlyWhenSizeUnknown ==
    [][\A r \in DOMAIN reqs :
           (reqs[r].op = "idle" /\ reqs'[r].op = "proxy") =>
               LET q == reqs'[r]
                   recorded == q.key = FileKey(q.doc) /\ q.row_size > 0
                   unexpired == q.key \in DOMAIN cache /\ cache[q.key][2] > clock
               IN  /\ q.stat <=> (~recorded /\ ~unexpired)
                   /\ q.from = "cache" => unexpired
                   /\ \A k \in DOMAIN cache' :
                          (k \notin DOMAIN cache \/ cache'[k] # cache[k]) =>
                              /\ q.stat /\ k = q.key
                              /\ cache'[k][2] = clock + (IF cache'[k][1] = _MISSING_SIZE
                                                         THEN _OBJECT_MISS_TTL_SECONDS
                                                         ELSE _OBJECT_SIZE_CACHE_TTL_SECONDS)]_vars

\* a second request arrived exactly when the only cache entry, made for its
\* key 300 s before, expired, and issued a stat again
C19_Witness ==
    \E r \in DOMAIN reqs :
        /\ reqs[r].op = "proxy" /\ reqs[r].stat /\ started = 2
        /\ clock = 1 + _OBJECT_SIZE_CACHE_TTL_SECONDS
        /\ DOMAIN cache = {reqs[r].key}
        /\ cache[reqs[r].key][2] = clock + _OBJECT_SIZE_CACHE_TTL_SECONDS

\* C20 as stated: when a request is over (stream read to the end, client
\* gone, or error), the storage response it opened has been closed and its
\* connection released.
C20_HandleReleasedOnEveryPath ==
    \A r \in DOMAIN reqs :
        (reqs[r].op = "proxy" /\ reqs[r].pc = "over") => reqs[r].handle # "open"

----------------------------------------------------------------------------
(* Further properties of the key deriver *)

\* str.startswith(pre)
StartsWith(s, pre) == Len(s) >= Len(pre) /\ SubSeq(s, 1, Len(pre)) = pre

\* the part of a key after its last path separator
BaseName(key) == RPartition(key, "/")[3]

\* directory + (basename without its last extension) + postfix + owner suffix
\* + extension, for a trimmed key
NamedBeside(key, postfix, user_id, ext) ==
    LET parts == RPartition(key, "/")
        stem == RSplitHead(parts[3], ".")
        name == stem \o postfix \o UserSuffix(user_id) \o ext
    IN  IF parts[1] # <<>> THEN parts[1] \o <<"/">> \o name ELSE name

\* C23 as stated: for every source key with a non-empty basename the baked
\* key is directory + basename without its last extension + "__baked" + owner
\* suffix + ".pdf", and the annotations key is the same with "__ann" and
\* ".json".
C23_LastExtensionReplaced ==
    (kOut.done /\ BaseName(Strip(kKey)) # <<>>)
        => /\ kOut.baked1 = NamedBeside(Strip(kKey), BAKED_POSTFIX, kOwner, DotPdf)
           /\ kOut.ann1 = NamedBeside(Strip(kKey), ANNOTATIONS_POSTFIX, kOwner, DotJson)

\* C24 as stated: for a source key whose basename is empty (empty key,
\* whitespace-only key, key ending in the path separator) the derived names
\* start with the default base names "baked" and "annotations".
C24_EmptyBasenameGetsDefaultName ==
    (kOut.done /\ BaseName(Strip(kKey)) = <<>>)
        => /\ StartsWith(BaseName(kOut.baked1), DefaultBakedBase \o BAKED_POSTFIX)
           /\ StartsWith(BaseName(kOut.ann1), DefaultAnnBase \o ANNOTATIONS_POSTFIX)

----------------------------------------------------------------------------
(* Further properties of the review endpoints *)

IdsOf(list) == {list[i].id : i \in 1..Len(list)}

\* C22: an append takes the set stored when it is called and adds, after its
\* records in their order, exactly one record whose id is none of theirs; when
\* it succeeds, the stored set is that list and the call returns the added
\* record.
C22_AppendAddsOneFreshRecord ==
    [][\A r \in DOMAIN reqs :
           /\ (reqs[r].op = "idle" /\ reqs'[r].op = "append" /\ reqs'[r].pc = "upload") =>
                  LET before == get_json(storage, AnnKeyOf(reqs'[r].doc, reqs'[r].user))
                      list == reqs'[r].anns
                  IN  /\ Len(list) = Len(before) + 1
                      /\ SubSeq(list, 1, Len(before)) = before
                      /\ list[Len(list)].id \notin IdsOf(before)
                      /\ LET new == list[Len(list)]
                             sent == reqs'[r].input[1]
                         IN  /\ new.page = sent.page /\ new.x = sent.x /\ new.y = sent.y
                             /\ new.text = sent.text /\ new.author_id = reqs'[r].user
           /\ (reqs[r].op = "append" /\ reqs[r].pc = "upload" /\ reqs'[r].pc = "done") =>
                  LET list == reqs[r].anns
                  IN  /\ get_json(storage', AnnKeyOf(reqs[r].doc, reqs[r].user)) = list
                      /\ reqs'[r].ret = LoadView(<<list[Len(list)]>>)]_vars

\* a second append of one reviewer succeeded: two records are stored, with
\* different ids, and the one returned is the last
C22_Witness ==
    \E r \in DOMAIN reqs :
        /\ reqs[r].op = "append" /\ reqs[r].pc = "done"
        /\ LET list == get_json(storage, AnnKeyOf(reqs[r].doc, reqs[r].user))
           IN  /\ Len(list) = 2
               /\ list[1].id # list[2].id
               /\ list[1].id = Uuid4(1)
               /\ reqs[r].ret = LoadView(<<list[2]>>)

\* C26 as stated: when two appends for the same (document, reviewer) have
\* both succeeded, the stored set contains the record each of them added.
C26_ConcurrentAppendsBothKept ==
    \A r1, r2 \in DOMAIN reqs :
        (/\ r1 # r2
         /\ reqs[r1].op = "append" /\ reqs[r1].pc = "done"
         /\ reqs[r2].op = "append" /\ reqs[r2].pc = "done"
         /\ reqs[r1].user = reqs[r2].user /\ reqs[r1].doc = reqs[r2].doc) =>
            LET stored == get_json(storage, AnnKeyOf(reqs[r1].doc, reqs[r1].user))
            IN  {reqs[r1].ret[1].id, reqs[r2].ret[1].id} \subseteq IdsOf(stored)

\* C27 as stated: whenever the size cache holds an unexpired entry with a size
\* for a baked key, that size is the length of the object stored at the key.
C27_CachedSizeIsStoredSize ==
    \A d \in Docs, u \in Reviewers :
        LET k == BakedKeyOf(d, u)
        IN  (/\ k \in DOMAIN cache
             /\ cache[k][1] # _MISSING_SIZE
             /\ cache[k][2] > clock) => cache[k][1] = Size(Get(storage, k))

----------------------------------------------------------------------------
(* Properties of the deletion of files and projects *)

\* the documents request q has deleted
DeletedBy(q) ==
    IF q.pc # "done" THEN {}
    ELSE IF q.op = "delete" THEN {q.doc}
    ELSE IF q.op = "delete_project" THEN Docs
    ELSE {}

\* C25 as stated: once a file or its project has been deleted and nothing
\* else is in flight, storage holds no object under the file's key and none
\* under the baked key or the annotations key of any reviewer.
C25_DeleteRemovesEverySidecar ==
    \A r \in DOMAIN reqs :
        (\A q \in DOMAIN reqs \ {r} : reqs[q].op = "idle") =>
            \A d \in DeletedBy(reqs[r]) :
                /\ FileKey(d) \notin DOMAIN storage
                /\ \A u \in Reviewers :
                       /\ AnnKeyOf(d, u) \notin DOMAIN storage
                       /\ BakedKeyOf(d, u) \notin DOMAIN storage

\* C30 as stated: a deletion that fails with a storage error leaves every
\* stored object and every file row as they were.
C30_FailedDeleteChangesNothing ==
    [][\A r \in DOMAIN reqs :
           (/\ reqs[r].op = "idle"
            /\ reqs'[r].op \in {"delete", "delete_project"}
            /\ reqs'[r].pc = "failed") => (storage' = storage /\ files' = files)]_vars

----------------------------------------------------------------------------
(* Properties of the review sessions *)

\* C29 as stated: after any sequence of start, stop and status updates, a
\* session has completed_at set only if its status is "approved".
C29_CompletedOnlyWhenApproved ==
    \A k \in DOMAIN sessions :
        sessions[k].completed_at # 0 => sessions[k].status = "approved"

----------------------------------------------------------------------------
(* A further property of the proxy *)

\* the Range header h names the start offset a explicitly
ExplicitStart(h, a) ==
    \/ \E b \in 0..MaxByte : h = RangeOf(a, b)
    \/ h = RangeFrom(a)
    \/ h = SpacedRange /\ a = 0

\* C28 as stated: every 206 response answers a Range header with an explicit
\* start offset, and its storage read begins at that offset; a header with an
\* empty start is not answered 206.
C28_PartialOnlyForExplicitStart ==
    \A r \in DOMAIN reqs :
        (reqs[r].op = "proxy" /\ reqs[r].status = 206) =>
            /\ reqs[r].range # SuffixRange
            /\ \E a \in 0..MaxByte :
                   ExplicitStart(reqs[r].range, a) /\ reqs[r].read[1][1] = a

====
